---- MODULE Spec2Model ----
(***************************************************************************)
(* The Spotify MCP server (src/server.js) as a state machine.              *)
(*                                                                         *)
(* The process runs in one of two modes (src/server.js:31, :126):          *)
(*   normal mode: tool invocations dispatched by the host share the        *)
(*     in-memory token cache ACCESS_TOKEN / ACCESS_TOKEN_EXP; every await  *)
(*     of a network call is a point where another invocation may run;      *)
(*   setup mode:  a local HTTP listener handles OAuth callbacks, exchanges *)
(*     the code for tokens, writes .env / .gitignore and exits.            *)
(*                                                                         *)
(* Time is Date.now() in milliseconds, counted from an arbitrary origin    *)
(* at or after the epoch, so that the initial ACCESS_TOKEN_EXP = 0 is      *)
(* never in the future.                                                    *)
(***************************************************************************)
EXTENDS Integers, Sequences, FiniteSets, TLC

VARIABLES
    mode,               \* "normal" | "setup"   (process.argv.includes("--setup"))
    env,                \* process.env: which of the four variables are set
    now,                \* Date.now()
    ticks,              \* clock advances taken so far
    ACCESS_TOKEN,       \* the cached bearer token, Null when absent
    ACCESS_TOKEN_EXP,   \* its expiry, epoch ms
    inv,                \* the tool invocations, by slot
    tokenReqs,          \* refresh POSTs sent to the token endpoint so far
    apiReqs,            \* requests sent to api.spotify.com so far
    lastResp,           \* the last success response of the token endpoint
    STATE_,             \* setup: STATE, the state string generated at start
    listener,           \* setup: "off" | "listening" | "closing"
    cb,                 \* setup: the requests to the listener, by slot
    exchanges,          \* setup: token-exchange POSTs sent so far
    envFile,            \* setup: the file .env
    gitignore,          \* setup: the file .gitignore
    closeCodes,         \* setup: exit codes of the pending server.close callbacks
    terminal,           \* setup: the slots that reached a terminal outcome, in order
    exitCode,           \* Null while the process runs, <<code>> once it has exited
    data,               \* spotify_get_top_tracks: the body of the API's response
    text                \* spotify_get_top_tracks: the text of the content returned

normalVars == <<now, ticks, ACCESS_TOKEN, ACCESS_TOKEN_EXP, inv, tokenReqs, apiReqs, lastResp>>
setupVars == <<STATE_, listener, cb, exchanges, envFile, gitignore, closeCodes, terminal>>
toolVars == <<data, text>>
vars == <<mode, env, normalVars, setupVars, exitCode, toolVars>>

-----------------------------------------------------------------------------
(* Bounds of the model *)

MaxInvocations == 2
MaxTicks == 1
MaxRequests == 2
MaxTracks == 2
MaxArtists == 2

(* Program constants *)

MarginMs == 30000
DefaultExpiresIn == 3600

-----------------------------------------------------------------------------
(* Values *)

Null == <<>>                       \* null / undefined / absent
StaticToken == <<"static">>        \* the value of SPOTIFY_ACCESS_TOKEN
Refreshed(n) == <<"tok", n>>       \* the n-th token the authorization server issues

Slots == 1..MaxInvocations

\* How far the clock moves in one step of the model: half the margin, so
\* that a token with a lifetime of 45 seconds is seen before and at the
\* instant 30 seconds ahead of its expiry, and after it with one step more.
TickMs == MarginMs \div 2

\* expires_in of a success response: absent (<<>>) or a number of seconds.
ExpiresInVals == {<<>>, <<20>>, <<45>>}

ToolNames == {"spotify_get_top_tracks", "spotify_create_playlist", "spotify_add_to_playlist"}

\* The `uris` argument of spotify_add_to_playlist: a list of track URIs.
UrisVals == {<<>>, <<"spotify:track:1">>}

\* The arguments a host may pass to a tool, as far as the handlers tell them
\* apart: the uris of spotify_add_to_playlist.
ArgsOf(tool) == IF tool = "spotify_add_to_playlist" THEN UrisVals ELSE {<<>>}

\* me.id of the response to GET v1/me
UserIds == {<<"u1">>}

\* Mutant: the list of uris may be empty.
ValidInputAnyUris(tool, uris) == TRUE

\* inputSchema: uris: z.array(z.string()).min(1). The host protocol checks the
\* arguments against the schema before it calls the handler.
ValidInput(tool, uris) == tool = "spotify_add_to_playlist" => Len(uris) >= 1

\* Mutant: spotify_create_playlist sends its two requests the other way round.
EndpointOfSwapped(r) ==
    IF r.tool = "spotify_get_top_tracks" THEN <<"GET", "v1/me/top/tracks">>
    ELSE IF r.tool = "spotify_add_to_playlist" THEN <<"POST", "v1/playlists/{playlistId}/tracks">>
    ELSE IF r.step = 2 THEN <<"GET", "v1/me">>
    ELSE <<"POST", "v1/users", r.userId, "playlists">>

\* The method and endpoint of the spotifyFetch call the handler of r.tool
\* makes at r.step.
EndpointOf(r) ==
    IF r.tool = "spotify_get_top_tracks" THEN <<"GET", "v1/me/top/tracks">>
    ELSE IF r.tool = "spotify_add_to_playlist" THEN <<"POST", "v1/playlists/{playlistId}/tracks">>
    ELSE IF r.step = 1 THEN <<"GET", "v1/me">>
    ELSE <<"POST", "v1/users", r.userId, "playlists">>

\* The spotifyFetch calls a tool handler makes, one after the other.
FetchesOf(tool) == IF tool = "spotify_create_playlist" THEN 2 ELSE 1

\* Mutant: the refresh token is not looked at.
SecretCompleteWithoutToken == env.clientId /\ env.clientSecret

\* env(k): !clientId || !clientSecret || !refreshToken  (negated)
SecretComplete == env.clientId /\ env.clientSecret /\ env.refreshToken

\* Number(data.expires_in ?? 3600)
ExpiresInSec(e) == IF e = <<>> THEN DefaultExpiresIn ELSE e[1]

\* Mutant: a token that exists is used, whatever its expiry.
CachedUsableAnyToken(tok, exp, t) == tok # Null

\* Mutant: the 30 second margin is left out.
CachedUsableNoMargin(tok, exp, t) == tok # Null /\ t < exp

\* Mutant: the comparison is turned around.
CachedUsableInverted(tok, exp, t) == tok # Null /\ t > exp - MarginMs

\* ACCESS_TOKEN && now < ACCESS_TOKEN_EXP - 30_000
CachedUsable(tok, exp, t) == tok # Null /\ t < exp - MarginMs

\* Beside the response: its number n, the time `at` of its arrival and `by`,
\* the invocation that asked for it.
NoResp == [n |-> 0, access_token |-> Null, expires_in |-> <<>>, at |-> 0, by |-> 0]

\* An invocation: where its handler stands (pc), the tool, its `uris`
\* argument, the number of the spotifyFetch call it is in (step), the local
\* `token` of that call while it is in progress, the local `userId` of
\* spotify_create_playlist, the requests it has sent to the API (reqs), and
\* how the invocation ended (outcome).
IdleInv == [pc |-> "idle", tool |-> "none", uris |-> <<>>, step |-> 0, token |-> Null,
            userId |-> Null, reqs |-> <<>>, outcome |-> "none"]

-----------------------------------------------------------------------------
(* Normal mode *)

\* Mutant: the check of the token is left out.
TokenNeverMissing(token) == FALSE

\* if (!token) throw new Error("No Spotify access token. ...")
TokenMissing(token) == token = Null

\* spotifyFetch once refreshAccessTokenIfNeeded has returned `token`: the
\* check of the token, then the request to the API.
SendApiRequest(i, r, token) ==
    IF TokenMissing(token)
    THEN /\ inv' = [inv EXCEPT ![i] = [r EXCEPT !.pc = "done", !.token = token,
                                               !.outcome = "NoCredentialsAvailable"]]
         /\ UNCHANGED apiReqs
    ELSE /\ inv' = [inv EXCEPT ![i] = [r EXCEPT !.pc = "awaitApi", !.token = token,
                                               !.reqs = Append(@, EndpointOf(r))]]
         /\ apiReqs' = apiReqs + 1

\* spotifyFetch up to its first suspension: refreshAccessTokenIfNeeded runs
\* synchronously to a return or to the await of the refresh POST; on a return
\* spotifyFetch goes on without suspension.
\* `r` is the invocation's record with tool and step already set.
SpotifyFetch(i, r) ==
    IF CachedUsable(ACCESS_TOKEN, ACCESS_TOKEN_EXP, now) \/ ~SecretComplete
    THEN /\ SendApiRequest(i, r, ACCESS_TOKEN)
         /\ UNCHANGED tokenReqs
    ELSE /\ inv' = [inv EXCEPT ![i] = [r EXCEPT !.pc = "awaitRefresh", !.token = Null]]
         /\ tokenReqs' = tokenReqs + 1
         /\ UNCHANGED apiReqs

\* The host dispatches a tool invocation: arguments that do not meet the
\* inputSchema are rejected and the handler is not called; otherwise the
\* handler runs to its first await.
\* Slots name the invocations in the order of their dispatch.
Invoke(i) ==
    /\ mode = "normal"
    /\ inv[i].pc = "idle"
    /\ \A j \in Slots : j < i => inv[j].pc # "idle"
    /\ \E tool \in ToolNames : \E uris \in ArgsOf(tool) :
          IF ValidInput(tool, uris)
          THEN SpotifyFetch(i, [inv[i] EXCEPT !.tool = tool, !.uris = uris, !.step = 1])
          ELSE /\ inv' = [inv EXCEPT ![i] = [@ EXCEPT !.pc = "done", !.tool = tool,
                                                    !.uris = uris,
                                                    !.outcome = "InvalidInput"]]
               /\ UNCHANGED <<tokenReqs, apiReqs>>
    /\ UNCHANGED <<setupVars, toolVars, exitCode>>
    /\ UNCHANGED <<mode, env, now, ticks, ACCESS_TOKEN, ACCESS_TOKEN_EXP, lastResp>>

\* Mutant: the lifetime is added in seconds to a time in milliseconds.
StoreCredentialInSeconds(tok, e) ==
    /\ ACCESS_TOKEN' = tok
    /\ ACCESS_TOKEN_EXP' = now + ExpiresInSec(e)

\* Mutant: the token is replaced and the expiry is left as it was.
StoreCredentialTokenOnly(tok, e) ==
    /\ ACCESS_TOKEN' = tok
    /\ UNCHANGED ACCESS_TOKEN_EXP

\* ACCESS_TOKEN = data.access_token; ACCESS_TOKEN_EXP = Date.now() + expiresInSec * 1000
StoreCredential(tok, e) ==
    /\ ACCESS_TOKEN' = tok
    /\ ACCESS_TOKEN_EXP' = now + ExpiresInSec(e) * 1000

\* The token endpoint answers with success: the cache is replaced, the new
\* token returned, and spotifyFetch goes on with it.
RefreshOk(i) ==
    /\ mode = "normal"
    /\ inv[i].pc = "awaitRefresh"
    /\ \E e \in ExpiresInVals :
          LET tok == Refreshed(lastResp.n + 1)
          IN  /\ StoreCredential(tok, e)
              /\ lastResp' = [n |-> lastResp.n + 1, access_token |-> tok, expires_in |-> e,
                              at |-> now, by |-> i]
              /\ SendApiRequest(i, inv[i], ACCESS_TOKEN')
    /\ UNCHANGED <<setupVars, toolVars, exitCode>>
    /\ UNCHANGED <<mode, env, now, ticks, tokenReqs>>

\* Mutant: a non-success status is answered by sending the refresh again.
RefreshFailRetries(i) ==
    /\ mode = "normal"
    /\ inv[i].pc = "awaitRefresh"
    /\ tokenReqs' = tokenReqs + 1
    /\ UNCHANGED <<setupVars, toolVars, exitCode>>
    /\ UNCHANGED <<mode, env, now, ticks, ACCESS_TOKEN, ACCESS_TOKEN_EXP, inv, apiReqs, lastResp>>

\* Mutant: a non-success status clears the cached token.
RefreshFailClearsCache(i) ==
    /\ mode = "normal"
    /\ inv[i].pc = "awaitRefresh"
    /\ inv' = [inv EXCEPT ![i] = [@ EXCEPT !.pc = "done", !.outcome = "TokenRefreshFailed"]]
    /\ ACCESS_TOKEN' = Null
    /\ ACCESS_TOKEN_EXP' = 0
    /\ UNCHANGED <<setupVars, toolVars, exitCode>>
    /\ UNCHANGED <<mode, env, now, ticks, tokenReqs, apiReqs, lastResp>>

\* The token endpoint answers with a non-success status:
\* refreshAccessTokenIfNeeded throws "Spotify token refresh failed: ...",
\* spotifyFetch and the handler end with it.
RefreshFail(i) ==
    /\ mode = "normal"
    /\ inv[i].pc = "awaitRefresh"
    /\ inv' = [inv EXCEPT ![i] = [@ EXCEPT !.pc = "done", !.outcome = "TokenRefreshFailed"]]
    /\ UNCHANGED <<setupVars, toolVars, exitCode>>
    /\ UNCHANGED <<mode, env, now, ticks, ACCESS_TOKEN, ACCESS_TOKEN_EXP, tokenReqs, apiReqs, lastResp>>

\* The refresh POST itself fails (fetch rejects) or the body of the success
\* response cannot be parsed (res.json() throws): the error propagates
\* through spotifyFetch to the handler, and nothing has been stored.
RefreshThrows(i) ==
    /\ mode = "normal"
    /\ inv[i].pc = "awaitRefresh"
    /\ inv' = [inv EXCEPT ![i] = [@ EXCEPT !.pc = "done", !.outcome = "FetchError"]]
    /\ UNCHANGED <<setupVars, toolVars, exitCode>>
    /\ UNCHANGED <<mode, env, now, ticks, ACCESS_TOKEN, ACCESS_TOKEN_EXP, tokenReqs, apiReqs, lastResp>>

\* The API answers with success: the handler goes on to its next spotifyFetch,
\* or returns its content.
ApiOk(i) ==
    /\ mode = "normal"
    /\ inv[i].pc = "awaitApi"
    /\ IF inv[i].step < FetchesOf(inv[i].tool)
       THEN \E id \in UserIds :
               SpotifyFetch(i, [inv[i] EXCEPT !.step = @ + 1, !.userId = id])
       ELSE /\ inv' = [inv EXCEPT ![i] = [@ EXCEPT !.pc = "done", !.token = Null,
                                                 !.outcome = "ok"]]
            /\ UNCHANGED <<tokenReqs, apiReqs>>
    /\ UNCHANGED <<setupVars, toolVars, exitCode>>
    /\ UNCHANGED <<mode, env, now, ticks, ACCESS_TOKEN, ACCESS_TOKEN_EXP, lastResp>>

\* Mutant: a non-success status is answered by sending the request again.
ApiFailRetries(i) ==
    /\ mode = "normal"
    /\ inv[i].pc = "awaitApi"
    /\ inv' = [inv EXCEPT ![i] = [@ EXCEPT !.reqs = Append(@, EndpointOf(inv[i]))]]
    /\ apiReqs' = apiReqs + 1
    /\ UNCHANGED <<setupVars, toolVars, exitCode>>
    /\ UNCHANGED <<mode, env, now, ticks, ACCESS_TOKEN, ACCESS_TOKEN_EXP, tokenReqs, lastResp>>

\* The API answers with a non-success status: spotifyFetch throws
\* "Spotify API error: <status> <text>" and the handler ends with it.
ApiFail(i) ==
    /\ mode = "normal"
    /\ inv[i].pc = "awaitApi"
    /\ inv' = [inv EXCEPT ![i] = [@ EXCEPT !.pc = "done", !.token = Null,
                                         !.outcome = "UpstreamApiError"]]
    /\ UNCHANGED <<setupVars, toolVars, exitCode>>
    /\ UNCHANGED <<mode, env, now, ticks, ACCESS_TOKEN, ACCESS_TOKEN_EXP, tokenReqs, apiReqs, lastResp>>

\* The API request itself fails, or the body of its response cannot be parsed.
ApiThrows(i) ==
    /\ mode = "normal"
    /\ inv[i].pc = "awaitApi"
    /\ inv' = [inv EXCEPT ![i] = [@ EXCEPT !.pc = "done", !.token = Null,
                                         !.outcome = "FetchError"]]
    /\ UNCHANGED <<setupVars, toolVars, exitCode>>
    /\ UNCHANGED <<mode, env, now, ticks, ACCESS_TOKEN, ACCESS_TOKEN_EXP, tokenReqs, apiReqs, lastResp>>

\* Time passes. The clock is read only by the steps of the invocations, so
\* it need not move once all of them have ended.
Tick ==
    /\ mode = "normal"
    /\ ticks < MaxTicks
    /\ \E i \in Slots : inv[i].pc # "done"
    /\ now' = now + TickMs
    /\ ticks' = ticks + 1
    /\ UNCHANGED <<setupVars, toolVars, exitCode>>
    /\ UNCHANGED <<mode, env, ACCESS_TOKEN, ACCESS_TOKEN_EXP, inv, tokenReqs, apiReqs, lastResp>>

-----------------------------------------------------------------------------
(* Setup mode *)

ReqSlots == 1..MaxRequests

StateVals == {<<"st1">>, <<"st2">>}

\* req.url without its query, as the pieces the prefix test tells apart:
\* "/callback", "/callbackx", "/other".
CallbackPath == <<"/callback">>
UrlPaths == {<<"/callback">>, <<"/callback", "x">>, <<"/other">>}

\* The requests a client may send: any path; on the paths that reach the
\* parser of the query, every combination of code, state and error.
Requests ==
    [path : {<<"/other">>}, code : {Null}, state : {Null}, error : {Null}]
    \cup [path : UrlPaths \ {<<"/other">>},
          code : {Null, <<"">>, <<"c1">>},
          state : {Null} \cup StateVals,
          error : {Null, <<"access_denied">>}]

\* refresh_token of a success response of the token exchange.
RefreshTokens == {<<"r1">>, <<"r2">>}

\* What the file system does to the writes of lines 98-102: all succeed, the
\* write of .env throws, or the write of .gitignore throws.
FsOutcomes == {"ok", "envFails", "ignoreFails"}

\* req.url?.startsWith("/callback")
StartsWith(u, p) == Len(u) >= Len(p) /\ SubSeq(u, 1, Len(p)) = p

\* !x for a query parameter: null and "" are falsy
Falsy(x) == x = Null \/ x = <<"">>

IdleCb == [pc |-> "idle", req |-> Null, outcome |-> "none", posts |-> 0, refresh |-> Null,
           fs |-> "none"]

\* Mutant: shutdown is called without its argument and takes the default.
ShutdownDefault(code) ==
    /\ listener' = "closing"
    /\ closeCodes' = Append(closeCodes, 0)

\* function shutdown(code = 0) { server.close(() => process.exit(code)); }
\* close() stops the listener from accepting; its callback runs once the
\* connections of the requests still being handled have ended (ServerClosed).
Shutdown(code) ==
    /\ listener' = "closing"
    /\ closeCodes' = Append(closeCodes, code)

\* Mutant: the error parameter is not looked at.
HasErrorIgnored(req) == FALSE

\* if (error) ... return shutdown(1)
HasError(req) == ~Falsy(req.error)

\* Mutant: the state is not compared.
BadRequestCodeOnly(req) == Falsy(req.code)

\* if (!code || state !== STATE) ... return shutdown(1)
BadRequest(req) == Falsy(req.code) \/ req.state # STATE_

\* The start of setup mode: the check of the client id and secret, then listen.
SetupStart ==
    /\ mode = "setup"
    /\ exitCode = Null
    /\ listener = "off"
    /\ IF ~env.clientId \/ ~env.clientSecret
       THEN exitCode' = <<1>> /\ UNCHANGED listener
       ELSE listener' = "listening" /\ UNCHANGED exitCode
    /\ UNCHANGED <<mode, env, normalVars, toolVars, STATE_, cb, exchanges, envFile, gitignore,
                   closeCodes, terminal>>

\* A request arrives and its handler runs to a response or to the await of
\* the token exchange. Slots name the requests in the order of their arrival;
\* each request arrives on a connection of its own, which ends when the
\* response has been sent.
Request(h) ==
    /\ mode = "setup"
    /\ exitCode = Null
    /\ listener = "listening"
    /\ cb[h].pc = "idle"
    /\ \A k \in ReqSlots : k < h => cb[k].pc # "idle"
    /\ \E req \in Requests :
          IF ~StartsWith(req.path, CallbackPath)
          THEN /\ cb' = [cb EXCEPT ![h] = [@ EXCEPT !.pc = "done", !.req = req,
                                                   !.outcome = "notFound"]]
               /\ UNCHANGED <<listener, closeCodes, exchanges, terminal>>
          ELSE IF HasError(req)
          THEN /\ cb' = [cb EXCEPT ![h] = [@ EXCEPT !.pc = "done", !.req = req,
                                                   !.outcome = "authError"]]
               /\ Shutdown(1)
               /\ terminal' = Append(terminal, h)
               /\ UNCHANGED exchanges
          ELSE IF BadRequest(req)
          THEN /\ cb' = [cb EXCEPT ![h] = [@ EXCEPT !.pc = "done", !.req = req,
                                                   !.outcome = "badRequest"]]
               /\ Shutdown(1)
               /\ terminal' = Append(terminal, h)
               /\ UNCHANGED exchanges
          ELSE /\ cb' = [cb EXCEPT ![h] = [@ EXCEPT !.pc = "awaitExchange", !.req = req,
                                                   !.posts = @ + 1]]
               /\ exchanges' = exchanges + 1
               /\ UNCHANGED <<listener, closeCodes, terminal>>
    /\ UNCHANGED <<mode, env, normalVars, toolVars, STATE_, envFile, gitignore, exitCode>>

\* Mutant: an existing .env is left as it is.
WriteEnvIfAbsent(refresh) ==
    envFile' = IF ~envFile.exists
               THEN [exists |-> TRUE, tokens |-> <<refresh>>]
               ELSE envFile

\* if (!existsSync(".env")) writeFileSync(".env", lines) else appendFileSync(".env", "\n"+lines)
\* The lines carry the client id, the client secret and the refresh token;
\* the file is modelled by the refresh tokens written to it, in order.
WriteEnv(refresh) ==
    envFile' = IF ~envFile.exists
               THEN [exists |-> TRUE, tokens |-> <<refresh>>]
               ELSE [envFile EXCEPT !.tokens = Append(@, refresh)]

\* if (!existsSync(".gitignore")) writeFileSync(".gitignore", ".env\n")
WriteGitignore(fs) ==
    gitignore' = IF gitignore = "absent" /\ fs # "ignoreFails" THEN "withRule" ELSE gitignore

\* try { .env; .gitignore } catch (e) { console.log("Could not write ...") }
WriteFiles(refresh, fs) ==
    IF fs = "envFails"
    THEN UNCHANGED <<envFile, gitignore>>
    ELSE WriteEnv(refresh) /\ WriteGitignore(fs)

\* The token exchange answers with success: the files are written, the
\* browser gets the success page, shutdown(0).
ExchangeOk(h) ==
    /\ mode = "setup"
    /\ exitCode = Null
    /\ cb[h].pc = "awaitExchange"
    /\ \E refresh \in RefreshTokens, fs \in FsOutcomes :
          /\ WriteFiles(refresh, fs)
          /\ cb' = [cb EXCEPT ![h] = [@ EXCEPT !.pc = "done", !.outcome = "success",
                                              !.refresh = refresh, !.fs = fs]]
    /\ Shutdown(0)
    /\ terminal' = Append(terminal, h)
    /\ UNCHANGED <<mode, env, normalVars, toolVars, STATE_, exchanges, exitCode>>

\* The token exchange answers with a non-success status: shutdown(1).
ExchangeFail(h) ==
    /\ mode = "setup"
    /\ exitCode = Null
    /\ cb[h].pc = "awaitExchange"
    /\ cb' = [cb EXCEPT ![h] = [@ EXCEPT !.pc = "done", !.outcome = "exchangeFailed"]]
    /\ Shutdown(1)
    /\ terminal' = Append(terminal, h)
    /\ UNCHANGED <<mode, env, normalVars, toolVars, STATE_, exchanges, envFile, gitignore, exitCode>>

\* fetch rejects or r.json() throws: the catch block answers 500 and calls
\* process.exit(1) at once.
ExchangeThrows(h) ==
    /\ mode = "setup"
    /\ exitCode = Null
    /\ cb[h].pc = "awaitExchange"
    /\ cb' = [cb EXCEPT ![h] = [@ EXCEPT !.pc = "done", !.outcome = "exception"]]
    /\ terminal' = Append(terminal, h)
    /\ exitCode' = <<1>>
    /\ UNCHANGED <<mode, env, normalVars, toolVars, STATE_, listener, exchanges, envFile, gitignore,
                   closeCodes>>

\* The server has closed: every connection has ended, the 'close' event runs
\* the callbacks in the order of their registration and the first exits.
ServerClosed ==
    /\ mode = "setup"
    /\ exitCode = Null
    /\ listener = "closing"
    /\ \A h \in ReqSlots : cb[h].pc # "awaitExchange"
    /\ exitCode' = <<Head(closeCodes)>>
    /\ UNCHANGED <<mode, env, normalVars, toolVars, setupVars>>

-----------------------------------------------------------------------------
(* spotify_get_top_tracks: from the body of the response to the content *)

\* A string is the sequence of its pieces; the pieces are kept apart where
\* the handler puts them together, so that "" is <<>>.
SeqsUpTo(S, n) == UNION {[1..k -> S] : k \in 0..n}

\* Names of tracks and of artists: strings without a line break.
TrackNames == {<<"A">>, <<"B">>}
ArtistNames == {<<"x">>, <<"y">>}

Artists == [name : ArtistNames]
Tracks == [name : TrackNames, artists : SeqsUpTo(Artists, MaxArtists)]

\* The bodies the API may answer with: the field `items` absent, or a list
\* of tracks.
TopTracksBodies ==
    [hasItems : {FALSE}, items : {<<>>}]
    \cup [hasItems : {TRUE}, items : SeqsUpTo(Tracks, MaxTracks)]

\* Array.prototype.join: the elements with `sep` between them, "" for none.
RECURSIVE Join(_, _)
Join(strs, sep) ==
    IF strs = <<>> THEN <<>>
    ELSE IF Len(strs) = 1 THEN strs[1]
    ELSE strs[1] \o <<sep>> \o Join(Tail(strs), sep)

\* The piece " \u2014 " (space, em dash U+2014, space) between the name of a
\* track and its artists, written here in ASCII.
EmDash == " -- "

\* Mutant: the lines are numbered by the index, which starts at 0.
TopTrackLineFromZero(t, i) ==
    <<ToString(i), ". ">> \o t.name \o <<EmDash>>
        \o Join([k \in 1..Len(t.artists) |-> t.artists[k].name], ", ")

\* (t, i) => `${i + 1}. ${t.name} \u2014 ${t.artists.map((a) => a.name).join(", ")}`
\* with i the index of the track, which starts at 0.
TopTrackLine(t, i) ==
    <<ToString(i + 1), ". ">> \o t.name \o <<EmDash>>
        \o Join([k \in 1..Len(t.artists) |-> t.artists[k].name], ", ")

\* data.items ?? []
ItemsOf(d) == IF d.hasItems THEN d.items ELSE <<>>

\* lines.join("\n") || "No tracks found."
TopTracksText(d) ==
    LET items == ItemsOf(d)
        lines == [k \in 1..Len(items) |-> TopTrackLine(items[k], k - 1)]
        joined == Join(lines, "\n")
    IN  IF joined = <<>> THEN <<"No tracks found.">> ELSE joined

\* The handler of spotify_get_top_tracks after spotifyFetch has returned
\* `data`: it returns the content.
TopTracksContent ==
    /\ text = <<>>
    /\ text' = TopTracksText(data)
    /\ UNCHANGED <<mode, env, normalVars, setupVars, exitCode, data>>

-----------------------------------------------------------------------------

\* let ACCESS_TOKEN = env("SPOTIFY_ACCESS_TOKEN") || null; let ACCESS_TOKEN_EXP = 0;
\* nothing dispatched, nothing sent.
InitNormalVars ==
    /\ now = 0
    /\ ticks = 0
    /\ ACCESS_TOKEN = IF env.accessToken THEN StaticToken ELSE Null
    /\ ACCESS_TOKEN_EXP = 0
    /\ inv = [i \in Slots |-> IdleInv]
    /\ tokenReqs = 0
    /\ apiReqs = 0
    /\ lastResp = NoResp

InitSetupVars ==
    /\ listener = "off"
    /\ cb = [h \in ReqSlots |-> IdleCb]
    /\ exchanges = 0
    /\ closeCodes = <<>>
    /\ terminal = <<>>

\* Normal mode: any subset of the four environment variables is set. The
\* files and the state string play no part.
InitNormal ==
    /\ mode = "normal"
    /\ env \in [clientId : BOOLEAN, clientSecret : BOOLEAN,
                refreshToken : BOOLEAN, accessToken : BOOLEAN]
    /\ InitNormalVars
    /\ InitSetupVars
    /\ STATE_ = Null
    /\ envFile = [exists |-> FALSE, tokens |-> <<>>]
    /\ gitignore = "absent"
    /\ exitCode = Null
    /\ data = [hasItems |-> FALSE, items |-> <<>>]
    /\ text = <<>>

\* Setup mode: the client id and secret may be set or not; .env and
\* .gitignore may exist or not, .gitignore with or without the rule.
InitSetup ==
    /\ mode = "setup"
    /\ env \in [clientId : BOOLEAN, clientSecret : BOOLEAN,
                refreshToken : {FALSE}, accessToken : {FALSE}]
    /\ InitNormalVars
    /\ InitSetupVars
    /\ STATE_ \in StateVals
    /\ envFile \in {[exists |-> FALSE, tokens |-> <<>>], [exists |-> TRUE, tokens |-> <<>>]}
    /\ gitignore \in {"absent", "withRule", "withoutRule"}
    /\ exitCode = Null
    /\ data = [hasItems |-> FALSE, items |-> <<>>]
    /\ text = <<>>

Init == InitNormal \/ InitSetup

Next ==
    \/ \E i \in Slots : Invoke(i)
    \/ \E i \in Slots : RefreshOk(i)
    \/ \E i \in Slots : RefreshFail(i)
    \/ \E i \in Slots : RefreshThrows(i)
    \/ \E i \in Slots : ApiOk(i)
    \/ \E i \in Slots : ApiFail(i)
    \/ \E i \in Slots : ApiThrows(i)
    \/ Tick
    \/ SetupStart
    \/ \E h \in ReqSlots : Request(h)
    \/ \E h \in ReqSlots : ExchangeOk(h)
    \/ \E h \in ReqSlots : ExchangeFail(h)
    \/ \E h \in ReqSlots : ExchangeThrows(h)
    \/ ServerClosed

Spec == Init /\ [][Next]_vars

\* The handler of spotify_get_top_tracks on every body of bounded size, the
\* token cache and the requests left out.
InitTopTracks ==
    /\ mode = "normal"
    /\ env = [clientId |-> FALSE, clientSecret |-> FALSE,
              refreshToken |-> FALSE, accessToken |-> FALSE]
    /\ InitNormalVars
    /\ InitSetupVars
    /\ STATE_ = Null
    /\ envFile = [exists |-> FALSE, tokens |-> <<>>]
    /\ gitignore = "absent"
    /\ exitCode = Null
    /\ data \in TopTracksBodies
    /\ text = <<>>

NextTopTracks == TopTracksContent

SpecTopTracks == InitTopTracks /\ [][NextTopTracks]_vars

-----------------------------------------------------------------------------
(* Steps of one invocation, read off two successive states *)

\* Invocation i enters spotifyFetch, and with it refreshAccessTokenIfNeeded.
CallStarts(i) ==
    \/ inv[i].pc = "idle" /\ inv'[i].step = 1
    \/ inv[i].pc = "awaitApi" /\ inv'[i].step = inv[i].step + 1

\* The call of refreshAccessTokenIfNeeded made by invocation i ends.
CallEnds(i) ==
    \/ CallStarts(i) /\ inv'[i].pc # "awaitRefresh"
    \/ inv[i].pc = "awaitRefresh" /\ inv'[i].pc # "awaitRefresh"

\* The seconds of lifetime a success response states, 3600 when it states none.
LifetimeOf(resp) == IF resp.expires_in = <<>> THEN 3600 ELSE resp.expires_in[1]

-----------------------------------------------------------------------------
(* C1 *)

\* C1 as stated: every call of obtainValidToken either returns a token
\* whose recorded expiry is at least 30 seconds after the moment of the return,
\* or fails with NoCredentialsAvailable.
C1_AsStated ==
    [][\A i \in Slots : CallEnds(i) =>
          \/ inv'[i].outcome = "NoCredentialsAvailable"
          \/ /\ inv'[i].pc = "awaitApi"
             /\ inv'[i].token # Null
             /\ ACCESS_TOKEN_EXP' - now' >= 30000]_vars

\* C1 (amended): a call of obtainValidToken ends in one of six ways.
\*  (a) it returns the cached token, whose recorded expiry is more than 30
\*      seconds after the time of the call;
\*  (b) after a success response it returns the token of that response, whose
\*      recorded expiry is the time of the response plus the stated lifetime,
\*      whatever that lifetime is;
\*  (c) after a non-success response it fails with TokenRefreshFailed;
\*  (f) when the refresh request itself fails, its error propagates;
\*  (d) with no complete refresh secret it returns the static token, whatever
\*      its recorded expiry;
\*  (e) with no complete refresh secret and no token, the request fails with
\*      NoCredentialsAvailable.
C1_ObtainEndsOneOfSixWays ==
    [][\A i \in Slots : CallEnds(i) =>
          \/ /\ CallStarts(i)
             /\ ACCESS_TOKEN # Null /\ ACCESS_TOKEN_EXP - now > 30000
             /\ inv'[i].pc = "awaitApi" /\ inv'[i].token = ACCESS_TOKEN
          \/ /\ inv[i].pc = "awaitRefresh"
             /\ SecretComplete
             /\ lastResp'.n = lastResp.n + 1
             /\ inv'[i].pc = "awaitApi" /\ inv'[i].token = lastResp'.access_token
             /\ ACCESS_TOKEN' = lastResp'.access_token
             /\ ACCESS_TOKEN_EXP' = now + LifetimeOf(lastResp') * 1000
          \/ /\ inv[i].pc = "awaitRefresh"
             /\ SecretComplete
             /\ inv'[i].outcome \in {"TokenRefreshFailed", "FetchError"}
             /\ ACCESS_TOKEN' = ACCESS_TOKEN /\ ACCESS_TOKEN_EXP' = ACCESS_TOKEN_EXP
          \/ /\ CallStarts(i)
             /\ ~SecretComplete /\ ACCESS_TOKEN = StaticToken
             /\ inv'[i].pc = "awaitApi" /\ inv'[i].token = StaticToken
          \/ /\ CallStarts(i)
             /\ ~SecretComplete /\ ACCESS_TOKEN = Null
             /\ inv'[i].outcome = "NoCredentialsAvailable"]_vars

\* A refreshed token with a lifetime under 30 seconds has been returned to
\* the invocation that asked for it.
C1_Witness ==
    \E i \in Slots :
        /\ inv[i].pc = "awaitApi"
        /\ lastResp.by = i
        /\ inv[i].token = lastResp.access_token
        /\ LifetimeOf(lastResp) * 1000 < 30000

-----------------------------------------------------------------------------
(* C2 *)

\* C2: a call of obtainValidToken made while a cached token exists whose
\* expiry is more than 30 seconds after the current time sends no request to
\* the token endpoint, returns the cached token and leaves the token and its
\* expiry as they were.
C2_FreshCacheIsReused ==
    [][\A i \in Slots :
          (CallStarts(i) /\ ACCESS_TOKEN # Null /\ ACCESS_TOKEN_EXP - now > 30000) =>
             /\ tokenReqs' = tokenReqs
             /\ inv'[i].pc = "awaitApi"
             /\ inv'[i].token = ACCESS_TOKEN
             /\ ACCESS_TOKEN' = ACCESS_TOKEN
             /\ ACCESS_TOKEN_EXP' = ACCESS_TOKEN_EXP]_vars

\* An invocation goes on with a cached token that was issued to another one.
C2_Witness ==
    \E i \in Slots :
        /\ inv[i].pc = "awaitApi"
        /\ lastResp.n > 0 /\ lastResp.by # i
        /\ inv[i].token = ACCESS_TOKEN
        /\ ACCESS_TOKEN_EXP - now > 30000
        /\ tokenReqs = 1

-----------------------------------------------------------------------------
(* C3 *)

\* C3: with a complete refresh secret, a call of obtainValidToken made while
\* the cached token is absent or expires within 30 seconds sends exactly one
\* refresh request (one when the call starts, none in any later step of the
\* call), and on a success response the stored token is the token of the
\* response and the stored expiry is the time of the response plus
\* expires_in seconds, 3600 when the response states none.
C3_StaleCacheRefreshesOnce ==
    [][\A i \in Slots :
          /\ (CallStarts(i) /\ SecretComplete
                /\ (ACCESS_TOKEN = Null \/ ACCESS_TOKEN_EXP - now <= 30000)) =>
                   /\ inv'[i].pc = "awaitRefresh"
                   /\ tokenReqs' = tokenReqs + 1
          /\ (inv[i].pc = "awaitRefresh" /\ inv'[i] # inv[i]) =>
                   /\ tokenReqs' = tokenReqs
                   /\ inv'[i].pc # "awaitRefresh"
          /\ (inv[i].pc = "awaitRefresh" /\ inv'[i].pc = "awaitApi") =>
                   /\ lastResp'.by = i /\ lastResp'.at = now
                   /\ ACCESS_TOKEN' = lastResp'.access_token
                   /\ ACCESS_TOKEN_EXP' = now + LifetimeOf(lastResp') * 1000]_vars

\* A response without expires_in has been stored with the default lifetime,
\* at a time other than the start of the clock.
C3_Witness ==
    /\ lastResp.n > 0
    /\ lastResp.expires_in = <<>>
    /\ lastResp.at > 0
    /\ ACCESS_TOKEN = lastResp.access_token
    /\ ACCESS_TOKEN_EXP = lastResp.at + 3600000
    /\ inv[lastResp.by].pc = "awaitApi"

-----------------------------------------------------------------------------
(* C4 *)

\* C4: with no complete refresh secret and no cached token, every request
\* (every call of spotifyFetch; a handler makes one unless the arguments of
\* the invocation were rejected) fails with NoCredentialsAvailable and
\* nothing is sent, neither to the token endpoint nor to the API.
C4_NoCredentialsNoNetwork ==
    (mode = "normal" /\ ~SecretComplete /\ ACCESS_TOKEN = Null) =>
        /\ tokenReqs = 0
        /\ apiReqs = 0
        /\ \A i \in Slots : inv[i].pc # "idle" =>
              /\ inv[i].pc = "done"
              /\ inv[i].reqs = <<>>
              /\ inv[i].step >= 1 => inv[i].outcome = "NoCredentialsAvailable"
              /\ inv[i].step = 0 => inv[i].outcome = "InvalidInput"

\* Two invocations have failed for want of credentials.
C4_Witness ==
    /\ mode = "normal" /\ ~SecretComplete /\ ACCESS_TOKEN = Null
    /\ \A i \in Slots : inv[i].outcome = "NoCredentialsAvailable"

-----------------------------------------------------------------------------
(* C8 *)

\* C8: in every state the stored token and expiry are either the initial
\* pair or the pair of one success response of the token endpoint (the last
\* one received), also when refreshes overlap; and with a complete refresh
\* secret every invocation that goes on to the API carries a token that a
\* success response of the token endpoint issued.
C8_CredentialIsOneResponse ==
    mode = "normal" =>
        /\ lastResp.n = 0 =>
              /\ ACCESS_TOKEN = (IF env.accessToken THEN StaticToken ELSE Null)
              /\ ACCESS_TOKEN_EXP = 0
        /\ lastResp.n > 0 =>
              /\ ACCESS_TOKEN = lastResp.access_token
              /\ ACCESS_TOKEN_EXP = lastResp.at + LifetimeOf(lastResp) * 1000
        /\ tokenReqs >= lastResp.n
        /\ SecretComplete =>
              \A i \in Slots : inv[i].pc = "awaitApi" =>
                  \E n \in 1..lastResp.n : inv[i].token = Refreshed(n)

\* Two refreshes overlap: a response has been stored and its invocation has
\* gone on, while the refresh of another invocation is still in flight. That
\* refresh was asked for before the response arrived, since the stored token
\* has been usable from then on.
C8_Witness ==
    /\ SecretComplete
    /\ lastResp.n = 1
    /\ ACCESS_TOKEN_EXP - now > 30000
    /\ inv[lastResp.by].pc = "awaitApi"
    /\ \E j \in Slots : j # lastResp.by /\ inv[j].pc = "awaitRefresh"

-----------------------------------------------------------------------------
(* Setup mode: the requests, by what they carry *)

Used(h) == cb[h].pc # "idle"

IsCallback(h) == Used(h) /\ cb[h].req.path = <<"/callback">>

CodeMissing(h) == cb[h].req.code = Null \/ cb[h].req.code = <<"">>

ErrorGiven(h) == cb[h].req.error # Null /\ cb[h].req.error # <<"">>

Written(tok) == envFile.exists /\ \E k \in 1..Len(envFile.tokens) : envFile.tokens[k] = tok

-----------------------------------------------------------------------------
(* C5 *)

\* C5: a callback whose state differs from the generated one, or whose code
\* is missing, sends no token-exchange POST, starts the teardown, and the
\* process exits with code 1 and with no other code.
C5_MismatchNeverExchanges ==
    \A h \in ReqSlots :
        (IsCallback(h) /\ (CodeMissing(h) \/ cb[h].req.state # STATE_)) =>
            /\ cb[h].posts = 0
            /\ cb[h].pc = "done"
            /\ listener = "closing"
            /\ exitCode \in {Null, <<1>>}
            /\ (exitCode = Null /\ \A k \in ReqSlots : cb[k].pc # "awaitExchange")
                  => ENABLED ServerClosed

\* The process has exited with 1 after a callback that carried a code and a
\* state other than the generated one, while another callback had gone
\* through its exchange.
C5_Witness ==
    /\ exitCode = <<1>>
    /\ \E h \in ReqSlots :
          /\ IsCallback(h) /\ ~CodeMissing(h) /\ ~ErrorGiven(h)
          /\ cb[h].req.state # STATE_ /\ cb[h].req.state # Null
    /\ exchanges = 1

-----------------------------------------------------------------------------
(* C6 *)

ValidCallback(h) ==
    /\ IsCallback(h) /\ ~ErrorGiven(h) /\ ~CodeMissing(h)
    /\ cb[h].req.state = STATE_

-----------------------------------------------------------------------------
(* C7 *)

\* C7 as stated: only one callback is honored, so that over all requests to
\* the listener at most one token exchange is sent and at most one request
\* reaches a terminal outcome.
C7_AsStated == exchanges <= 1 /\ Len(terminal) <= 1

-----------------------------------------------------------------------------
(* C9 *)

\* C9 as stated: once setup has exited with 0, .gitignore holds the rule
\* for .env, whatever .gitignore was before. The runs in which a write threw
\* are left out: the code logs the error and goes on (lines 98-102).
C9_AsStated ==
    (exitCode = <<0>> /\ \A h \in ReqSlots : cb[h].fs \in {"none", "ok"})
        => gitignore = "withRule"

-----------------------------------------------------------------------------
(* C10 *)

Succeeded == \E h \in ReqSlots : cb[h].outcome = "success" /\ Written(cb[h].refresh)

Failed ==
    \/ ~env.clientId \/ ~env.clientSecret
    \/ \E h \in ReqSlots :
          /\ IsCallback(h)
          /\ \/ ErrorGiven(h) \/ CodeMissing(h) \/ cb[h].req.state # STATE_
             \/ cb[h].outcome \in {"exchangeFailed", "exception"}

FirstOutcomeCode ==
    LET h == terminal[1]
    IN  IF ErrorGiven(h) \/ CodeMissing(h) \/ cb[h].req.state # STATE_ THEN 1
        ELSE IF cb[h].outcome = "success" THEN 0
        ELSE 1

-----------------------------------------------------------------------------
(* C11 *)

\* C11 as stated: every request whose path is not /callback gets the
\* not-found response, sends no token exchange and registers no exit.
C11_AsStated ==
    \A h \in ReqSlots :
        (Used(h) /\ cb[h].req.path # <<"/callback">>) =>
            /\ cb[h].outcome = "notFound"
            /\ cb[h].posts = 0
            /\ \A k \in 1..Len(terminal) : terminal[k] # h

-----------------------------------------------------------------------------
(* C12 *)

\* Invocation i is a call of spotify_add_to_playlist with an empty list of uris.
EmptyUrisCall(i) ==
    inv[i].pc # "idle" /\ inv[i].tool = "spotify_add_to_playlist" /\ inv[i].uris = <<>>

\* C12: spotify_add_to_playlist with an empty list of uris is rejected as
\* invalid input: its handler never calls spotifyFetch, it sends no request
\* to the API, and while all the invocations so far are such calls nothing has
\* been sent to the token endpoint or to the API.
C12_EmptyUrisRejected ==
    /\ \A i \in Slots : EmptyUrisCall(i) =>
          /\ inv[i].pc = "done"
          /\ inv[i].outcome = "InvalidInput"
          /\ inv[i].step = 0
          /\ inv[i].reqs = <<>>
    /\ (\A i \in Slots : inv[i].pc # "idle" => EmptyUrisCall(i)) =>
          tokenReqs = 0 /\ apiReqs = 0

\* With a complete refresh secret, a call with an empty list has been
\* rejected, and the call with one uri that followed it has refreshed the
\* token and sent its POST.
C12_Witness ==
    /\ SecretComplete
    /\ EmptyUrisCall(1) /\ inv[1].outcome = "InvalidInput"
    /\ inv[2].tool = "spotify_add_to_playlist" /\ Len(inv[2].uris) = 1
    /\ inv[2].pc = "awaitApi"
    /\ tokenReqs = 1 /\ apiReqs = 1

-----------------------------------------------------------------------------
(* C13 *)

\* The requests the invocations have sent to the API, one pair for each.
SentRequests == {<<i, k>> \in Slots \X (1..2) : k <= Len(inv[i].reqs)}

\* C13: every call of spotifyFetch sends at most one request to the API: an
\* invocation has sent no more requests than it has made calls, one for each
\* call while it awaits the API; after a non-success status it has ended with
\* UpstreamApiError without another request; and it ends well only when each
\* of its calls has sent its one request and got the body of a success.
C13_OneRequestPerCall ==
    /\ \A i \in Slots :
          /\ Len(inv[i].reqs) <= inv[i].step
          /\ inv[i].pc = "awaitApi" => Len(inv[i].reqs) = inv[i].step
          /\ inv[i].pc = "awaitRefresh" => Len(inv[i].reqs) = inv[i].step - 1
          /\ inv[i].outcome = "UpstreamApiError" =>
                inv[i].pc = "done" /\ Len(inv[i].reqs) = inv[i].step
          /\ inv[i].outcome = "ok" =>
                /\ inv[i].pc = "done"
                /\ inv[i].step = FetchesOf(inv[i].tool)
                /\ Len(inv[i].reqs) = inv[i].step
    /\ apiReqs = Cardinality(SentRequests)

\* The POST of spotify_create_playlist has been answered with a non-success
\* status after its GET had succeeded: two calls, two requests.
C13_Witness ==
    \E i \in Slots :
        /\ inv[i].tool = "spotify_create_playlist"
        /\ inv[i].outcome = "UpstreamApiError"
        /\ inv[i].step = 2
        /\ Len(inv[i].reqs) = 2
        /\ apiReqs = 2

-----------------------------------------------------------------------------
(* C14 *)

\* The lines of a string: its pieces between the line breaks.
RECURSIVE SplitLines(_)
SplitLines(str) ==
    IF \A k \in 1..Len(str) : str[k] # "\n" THEN <<str>>
    ELSE LET k == CHOOSE j \in 1..Len(str) :
                     str[j] = "\n" /\ \A l \in 1..(j - 1) : str[l] # "\n"
         IN  <<SubSeq(str, 1, k - 1)>> \o SplitLines(SubSeq(str, k + 1, Len(str)))

\* "i. name -- artists joined by ', '": the number, the name, and then the
\* names of the artists at the odd places with ", " at the even ones.
NumberedLine(t, i) ==
    LET m == IF t.artists = <<>> THEN 0 ELSE 2 * Len(t.artists) - 1
    IN  <<ToString(i), ". ", t.name[1], EmDash>>
            \o [j \in 1..m |-> IF j % 2 = 1 THEN t.artists[(j + 1) \div 2].name[1] ELSE ", "]

\* C14: for a response of n tracks the text of spotify_get_top_tracks has
\* exactly n lines, in the order of the response, line i (from 1) being
\* "i. name -- artists joined by ', '"; for n = 0 it is "No tracks found.".
C14_TopTracksLines ==
    text # <<>> =>
        LET items == IF data.hasItems THEN data.items ELSE <<>>
            n == Len(items)
        IN  IF n = 0 THEN text = <<"No tracks found.">>
            ELSE /\ Len(SplitLines(text)) = n
                 /\ \A i \in 1..n : SplitLines(text)[i] = NumberedLine(items[i], i)

\* The text has been made for two tracks, the first by two artists, the
\* second by none.
C14_Witness ==
    /\ text # <<>>
    /\ data.hasItems /\ Len(data.items) = 2
    /\ data.items[1].name = <<"B">> /\ Len(data.items[1].artists) = 2
    /\ data.items[1].artists[1].name # data.items[1].artists[2].name
    /\ data.items[2].name = <<"A">> /\ data.items[2].artists = <<>>
    /\ Len(text) = 12

-----------------------------------------------------------------------------
(* C15 *)

\* The invocations whose last call of spotifyFetch ended in its refresh,
\* with a non-success status or with an error of the request itself.
RefreshEndedBadly ==
    {i \in Slots : /\ inv[i].pc = "done"
                   /\ inv[i].outcome \in {"TokenRefreshFailed", "FetchError"}
                   /\ Len(inv[i].reqs) = inv[i].step - 1}

\* C15 as stated: an invocation that has failed with TokenRefreshFailed has
\* sent no request to the API.
C15_AsStated ==
    \A i \in Slots : inv[i].outcome = "TokenRefreshFailed" => inv[i].reqs = <<>>

\* C15 (amended): after a non-success status of the refresh request the
\* invocation has ended with TokenRefreshFailed; the call of spotifyFetch in
\* which the refresh failed has sent no request to the API, so that the
\* invocation has sent only those of its earlier calls (the GET of
\* spotify_create_playlist when the refresh of its second call fails, none
\* otherwise); and every refresh request sent is either one that got a
\* success response, or the one an invocation now awaits, or the one that
\* ended a call: none is sent a second time.
C15_RefreshFailureEndsInvocation ==
    /\ \A i \in Slots : inv[i].outcome = "TokenRefreshFailed" =>
          /\ inv[i].pc = "done"
          /\ Len(inv[i].reqs) = inv[i].step - 1
          /\ inv[i].step = 1 => inv[i].reqs = <<>>
          /\ inv[i].step = 2 =>
                inv[i].tool = "spotify_create_playlist" /\ inv[i].reqs = <<<<"GET", "v1/me">>>>
    /\ mode = "normal" =>
          tokenReqs = lastResp.n + Cardinality({i \in Slots : inv[i].pc = "awaitRefresh"})
                        + Cardinality(RefreshEndedBadly)

\* The first invocation has failed on its refresh without a request to the
\* API, and the second has gone through its own refresh.
C15_Witness ==
    /\ inv[1].outcome = "TokenRefreshFailed" /\ inv[1].reqs = <<>>
    /\ inv[2].pc = "awaitApi"
    /\ tokenReqs = 2 /\ apiReqs = 1

-----------------------------------------------------------------------------
(* C16 *)

\* One of the client id, the client secret and the refresh token is not set.
NoRefreshSecret == ~env.clientId \/ ~env.clientSecret \/ ~env.refreshToken

\* C16: with no complete refresh secret nothing is ever sent to the token
\* endpoint, the stored token stays the static one (or none) with its expiry
\* of 0, which no time is before, and every call of obtainValidToken returns
\* that token: a handler that ran either goes to the API with the static
\* token or, when there is none, ends with NoCredentialsAvailable.
C16_StaticTokenServedAsIs ==
    (mode = "normal" /\ NoRefreshSecret) =>
        /\ tokenReqs = 0
        /\ lastResp = NoResp
        /\ ACCESS_TOKEN = (IF env.accessToken THEN StaticToken ELSE Null)
        /\ ACCESS_TOKEN_EXP = 0
        /\ now >= ACCESS_TOKEN_EXP
        /\ \A i \in Slots : inv[i].step >= 1 =>
              IF env.accessToken
              THEN /\ inv[i].pc \in {"awaitApi", "done"}
                   /\ inv[i].pc = "awaitApi" => inv[i].token = StaticToken
                   /\ Len(inv[i].reqs) = inv[i].step
                   /\ inv[i].outcome \in {"none", "ok", "UpstreamApiError", "FetchError"}
              ELSE inv[i].pc = "done" /\ inv[i].outcome = "NoCredentialsAvailable"

\* Without a refresh token in the environment, and after time has passed,
\* the first invocation has ended well and the second goes to the API, both
\* with the static token.
C16_Witness ==
    /\ mode = "normal"
    /\ env.clientId /\ env.clientSecret /\ ~env.refreshToken /\ env.accessToken
    /\ now > 0
    /\ inv[1].outcome = "ok"
    /\ inv[2].pc = "awaitApi" /\ inv[2].token = StaticToken
    /\ tokenReqs = 0

-----------------------------------------------------------------------------
(* C17 *)

\* C17: the requests of a spotify_create_playlist invocation are, in this
\* order, the GET for the current user and the POST that creates the
\* playlist under the id the GET returned; the POST is sent in the second
\* call of spotifyFetch, which the handler reaches only with that id; and an
\* invocation that ended in its first call, on the token or on the GET,
\* has sent no POST.
C17_GetBeforePost ==
    \A i \in Slots : inv[i].tool = "spotify_create_playlist" =>
        /\ Len(inv[i].reqs) <= 2
        /\ Len(inv[i].reqs) >= 1 => inv[i].reqs[1] = <<"GET", "v1/me">>
        /\ Len(inv[i].reqs) = 2 =>
              /\ inv[i].step = 2
              /\ inv[i].userId \in UserIds
              /\ inv[i].reqs[2] = <<"POST", "v1/users", inv[i].userId, "playlists">>
        /\ inv[i].step = 2 <=> inv[i].userId # Null
        /\ (inv[i].pc = "done" /\ inv[i].step = 1) =>
              /\ inv[i].outcome # "ok"
              /\ \A k \in 1..Len(inv[i].reqs) : inv[i].reqs[k][1] # "POST"

\* The GET of the first invocation has been refused and it has ended
\* without a POST; the second has got its user id and has sent its POST.
C17_Witness ==
    /\ inv[1].tool = "spotify_create_playlist"
    /\ inv[1].outcome = "UpstreamApiError" /\ inv[1].reqs = <<<<"GET", "v1/me">>>>
    /\ inv[2].tool = "spotify_create_playlist"
    /\ inv[2].pc = "awaitApi" /\ Len(inv[2].reqs) = 2
    /\ apiReqs = 3

-----------------------------------------------------------------------------
(* C18 *)

\* C18: a callback that carries an error parameter, whatever its code and
\* state, is answered with the error, sends no token-exchange POST and
\* starts the teardown with code 1: its exit is the first one registered, so
\* that the process exits with 1 and with no other code.
C18_ErrorParameterFails ==
    \A h \in ReqSlots :
        (IsCallback(h) /\ ErrorGiven(h)) =>
            /\ cb[h].pc = "done"
            /\ cb[h].outcome = "authError"
            /\ cb[h].posts = 0
            /\ \E k \in 1..Len(terminal) : terminal[k] = h
            /\ listener = "closing"
            /\ Head(closeCodes) = 1
            /\ exitCode \in {Null, <<1>>}

\* The process has exited with 1 after a callback that carried an error
\* beside a code and the generated state, and no exchange was ever sent.
C18_Witness ==
    /\ exitCode = <<1>>
    /\ exchanges = 0
    /\ \E h \in ReqSlots :
          /\ IsCallback(h) /\ ErrorGiven(h)
          /\ ~CodeMissing(h) /\ cb[h].req.state = STATE_

-----------------------------------------------------------------------------
(* C19 *)

\* The stored token or its expiry differs between the two states of a step.
CredentialChanges ==
    ACCESS_TOKEN' # ACCESS_TOKEN \/ ACCESS_TOKEN_EXP' # ACCESS_TOKEN_EXP

\* C19: a step changes the stored token or its expiry only when it is the
\* arrival of a success response to the refresh of some invocation, and then
\* the stored token is the token of that response; the step in which an
\* invocation ends on a refused or failed refresh, on an error of the API, on
\* a missing token or on rejected arguments leaves both as they were.
C19_OnlyRefreshSuccessStores ==
    [][/\ CredentialChanges =>
             \E i \in Slots :
                 /\ inv[i].pc = "awaitRefresh" /\ inv'[i].pc = "awaitApi"
                 /\ lastResp'.n = lastResp.n + 1 /\ lastResp'.by = i
                 /\ ACCESS_TOKEN' = lastResp'.access_token
                 /\ inv'[i].token = lastResp'.access_token
       /\ \A i \in Slots :
             (inv[i].pc # "done" /\ inv'[i].pc = "done" /\ inv'[i].outcome # "ok") =>
                 ~CredentialChanges]_vars

\* A token has been stored for the first invocation, whose request the API
\* then refused; the refresh of the second was refused; the stored token is
\* still the one of that response.
C19_Witness ==
    /\ lastResp.n = 1 /\ lastResp.by = 1
    /\ inv[1].outcome = "UpstreamApiError"
    /\ inv[2].outcome = "TokenRefreshFailed"
    /\ ACCESS_TOKEN = lastResp.access_token
    /\ ACCESS_TOKEN_EXP = lastResp.at + LifetimeOf(lastResp) * 1000

-----------------------------------------------------------------------------
(* C20 *)

\* C20: with a complete refresh secret the static token of the environment
\* is never the bearer token of a request to the API: until the first success
\* response of the token endpoint the recorded expiry is 0, every handler that
\* has run has asked for a refresh and none has sent a request to the API;
\* and every request to the API carries a token of such a response.
C20_StaticTokenNeverSent ==
    (mode = "normal" /\ env.clientId /\ env.clientSecret /\ env.refreshToken) =>
        /\ lastResp.n = 0 =>
              /\ ACCESS_TOKEN_EXP = 0
              /\ apiReqs = 0
              /\ \A i \in Slots : inv[i].step >= 1 =>
                    /\ inv[i].reqs = <<>>
                    /\ \/ inv[i].pc = "awaitRefresh"
                       \/ inv[i].outcome \in {"TokenRefreshFailed", "FetchError"}
        /\ inv[1].step >= 1 => tokenReqs >= 1
        /\ \A i \in Slots : inv[i].pc = "awaitApi" =>
              /\ inv[i].token # StaticToken
              /\ inv[i].token # Null
              /\ inv[i].token[1] = "tok" /\ inv[i].token[2] \in 1..lastResp.n

\* With a static token in the environment beside the refresh secret, the
\* first request goes to the API with the token of the first refresh.
C20_Witness ==
    /\ mode = "normal" /\ SecretComplete /\ env.accessToken
    /\ inv[1].pc = "awaitApi" /\ inv[1].step = 1
    /\ inv[1].token = Refreshed(1)
    /\ ACCESS_TOKEN = Refreshed(1)
    /\ tokenReqs = 1 /\ apiReqs = 1

====
